---- MODULE Spec2Model ----
(***************************************************************************)
(* A model of the two caches of LiteSTL:                                   *)
(*   Collections::LRU_K_Cache  (lru_k_cache.h, src/unnamed/part_001)       *)
(*   Collections::LRUCache     (src/unnamed/part_000)                      *)
(* and of its containers Stack (src/src/stack.hpp), Queue, Vector and      *)
(* DoublyLinkedList (src/src/vector.hpp).                                  *)
(* A behaviour constructs one object (inst says which class) and then calls *)
(* its public member functions one after the other.  Every call is one     *)
(* atomic action (the library is single-threaded and synchronous).         *)
(*                                                                         *)
(* A node pointer LRUNode* is modelled by the key under which the node is  *)
(* indexed: a node is created by Put with its key, key_ is never written   *)
(* again, and cache_ maps a key to the node carrying that key.             *)
(***************************************************************************)
EXTENDS Integers, Sequences, FiniteSets, TLC

\* ---------------------------------------------------------------- bounds
NumKeys == 3        \* keys are 1..NumKeys, ordered by <
NumValues == 2      \* values are 1..NumValues
MaxCapacity == 2    \* capacities tried at construction
MaxK == 2           \* K tried at construction
TimestampMax == 5   \* stands for std::numeric_limits<timestamp_t>::max()
MaxLen == 3         \* elements a Stack, Queue or Vector is filled with
SizeMax == 15       \* stands for std::numeric_limits<size_t>::max()
DefaultCapacity == 10   \* the capacity Vector() , clear() and extend() start from

Keys == 1..NumKeys
Values == 1..NumValues

\* ------------------------------------------------------------- variables
VARIABLES
  inst,     \* which class the behaviour constructed
  lruk,     \* the LRU_K_Cache object: capacity_, k_, cache_, eviction_set_, current_timestamp_
  lru,      \* the LRUCache object: _capacity, _cache_mapper, heap, _head, _tail
  op,       \* the last call: name, key, value
  ret,      \* what the last call returned (or that it threw)
  pre,      \* the object as it was when the last call started
  fresh,    \* number of calls so far if all were Put of a key not indexed, else -1
  log,      \* what the caller has done so far (see Log0)
  list_,    \* the DoublyLinkedList of the Stack or Queue: _head, _tail, _length, heap
  vector    \* the Vector object: _size, _capacity, _data_array

vars == <<inst, lruk, lru, op, ret, pre, fresh, log, list_, vector>>

\* -------------------------------------------------------------- helpers
Min(S) == CHOOSE x \in S : \A y \in S : x <= y

RemoveAt(s, i) == [j \in 1..(Len(s) - 1) |-> IF j < i THEN s[j] ELSE s[j + 1]]

InsertAt(s, i, e) ==
  [j \in 1..(Len(s) + 1) |-> IF j < i THEN s[j] ELSE IF j = i THEN e ELSE s[j - 1]]

SeqToSet(s) == {s[i] : i \in 1..Len(s)}

\* std::unordered_map::erase(key)
MapErase(m, key) == [x \in (DOMAIN m) \ {key} |-> m[x]]

\* m[key] = node
MapPut(m, key, node) == [x \in (DOMAIN m) \cup {key} |-> IF x = key THEN node ELSE m[x]]

EmptyMap == [x \in {} |-> 0]

\* results of a call
Void == [kind |-> "void", val |-> 0]
Nullopt == [kind |-> "nullopt", val |-> 0]
Some(v) == [kind |-> "value", val |-> v]
Bool(b) == [kind |-> "bool", val |-> IF b THEN 1 ELSE 0]
SizeT(n) == [kind |-> "size", val |-> n]
RuntimeError == [kind |-> "runtime_error", val |-> 0]

NoOp == [name |-> "construct", key |-> 0, value |-> 0]

\* ------------------------------------------------------------ LRU_K_Cache
\* LRUNode(key, value): empty history, not evictable
LRUNode(key, value) ==
  [key_ |-> key, value_ |-> value, history_ |-> <<>>, is_evictable_ |-> FALSE]

\* LRU_K_Cache(cache_size, k)
LRU_K_Cache(cache_size, k) ==
  [capacity_ |-> cache_size,
   k_ |-> k,
   cache_ |-> EmptyMap,
   eviction_set_ |-> <<>>,
   current_timestamp_ |-> 0]

\* size()
size(c) == Cardinality(DOMAIN c.cache_)

\* contains(key)
contains(c, key) == key \in DOMAIN c.cache_

\* mutant: full entries ordered by their most recent access (plain LRU)
CompareNewest(c, a, b) ==
  LET na == c.cache_[a]
      nb == c.cache_[b]
      la == na.history_[Len(na.history_)]
      lb == nb.history_[Len(nb.history_)]
  IN IF Len(na.history_) < c.k_ /\ Len(nb.history_) < c.k_ THEN na.key_ < nb.key_
     ELSE IF Len(na.history_) < c.k_ THEN FALSE
     ELSE IF Len(nb.history_) < c.k_ THEN TRUE
     ELSE IF la = lb THEN na.key_ < nb.key_
     ELSE la < lb

\* mutant: the set orders the node pointers themselves (std::set<LRUNode*>
\* with its default comparator)
CompareByAddress(c, a, b) == c.address_[a] < c.address_[b]

\* Compare::operator()(a, b): a sorts before b in the eviction set
Compare(c, a, b) ==
  LET na == c.cache_[a]
      nb == c.cache_[b]
  IN IF Len(na.history_) < c.k_ /\ Len(nb.history_) < c.k_ THEN na.key_ < nb.key_
     ELSE IF Len(na.history_) < c.k_ THEN FALSE
     ELSE IF Len(nb.history_) < c.k_ THEN TRUE
     ELSE IF Head(na.history_) = Head(nb.history_) THEN na.key_ < nb.key_
     ELSE Head(na.history_) < Head(nb.history_)

\* position of the first member that does not sort before node (std::set's descent)
LowerBound(c, node) ==
  LET es == c.eviction_set_
      idx == {i \in 1..Len(es) : ~Compare(c, es[i], node)}
  IN IF idx = {} THEN Len(es) + 1 ELSE Min(idx)

\* eviction_set_.erase(node): removes the member equivalent to node, if any
SetErase(c, node) ==
  LET es == c.eviction_set_
      i == LowerBound(c, node)
  IN IF i <= Len(es) /\ ~Compare(c, node, es[i])
     THEN [c EXCEPT !.eviction_set_ = RemoveAt(es, i)]
     ELSE c

\* mutant: the insert is lost
SetInsertLost(c, node) == c

\* eviction_set_.insert(node): rejected when an equivalent member exists
SetInsert(c, node) ==
  LET es == c.eviction_set_
      i == LowerBound(c, node)
  IN IF i <= Len(es) /\ ~Compare(c, node, es[i])
     THEN c
     ELSE [c EXCEPT !.eviction_set_ = InsertAt(es, i, node)]

\* mutant: no overflow check
OverflowNever(c) == FALSE

\* ResourceAccess throws before changing anything
Overflow(c) == c.current_timestamp_ = TimestampMax

\* mutant: no timestamp is ever dropped
RecordKeepsAll(h, ts, k) == Append(h, ts)

\* mutant: the timestamp is put at the front
RecordAtFront(h, ts, k) ==
  LET h1 == <<ts>> \o h
  IN IF Len(h1) > k THEN SubSeq(h1, 1, Len(h1) - 1) ELSE h1

\* mutant: at K the newest timestamp is dropped instead of the oldest
RecordDropsNewest(h, ts, k) ==
  LET h1 == Append(h, ts)
  IN IF Len(h1) > k THEN SubSeq(h1, 1, Len(h1) - 1) ELSE h1

\* history_.push_back(ts); if (size > k_) pop_front()
Record(h, ts, k) ==
  LET h1 == Append(h, ts)
  IN IF Len(h1) > k THEN Tail(h1) ELSE h1

\* mutant: the node is flagged evictable at every access
ResourceAccessStepsFlagsAtOnce(c, node) ==
  LET c1 == IF Len(c.cache_[node].history_) = c.k_ THEN SetErase(c, node) ELSE c
      ts == (c1.current_timestamp_ + 1) % (TimestampMax + 1)
      c2 == [c1 EXCEPT !.current_timestamp_ = ts,
                       !.cache_[node].history_ = Record(@, ts, c.k_),
                       !.cache_[node].is_evictable_ = TRUE]
      c3 == IF Len(c2.cache_[node].history_) = c2.k_ THEN SetInsert(c2, node) ELSE c2
  IN <<c1, c2, c3>>

\* mutant: the history is written while the node is in the eviction set
ResourceAccessStepsInPlace(c, node) ==
  LET c1 == c
      ts == (c1.current_timestamp_ + 1) % (TimestampMax + 1)
      c2 == [c1 EXCEPT !.current_timestamp_ = ts,
                       !.cache_[node].history_ = Record(@, ts, c.k_)]
      c3 == IF Len(c2.cache_[node].history_) = c2.k_
            THEN SetInsert([c2 EXCEPT !.cache_[node].is_evictable_ = TRUE], node)
            ELSE c2
  IN <<c1, c2, c3>>

\* mutant: the clock is not advanced
ResourceAccessStepsNoTick(c, node) ==
  LET c1 == IF Len(c.cache_[node].history_) = c.k_ THEN SetErase(c, node) ELSE c
      ts == c1.current_timestamp_
      c2 == [c1 EXCEPT !.cache_[node].history_ = Record(@, ts, c.k_)]
      c3 == IF Len(c2.cache_[node].history_) = c2.k_
            THEN SetInsert([c2 EXCEPT !.cache_[node].is_evictable_ = TRUE], node)
            ELSE c2
  IN <<c1, c2, c3>>

\* ResourceAccess(node), when it does not throw: the object after the erase
\* (lines 108-110), after the timestamp is recorded (112-116) and after the
\* insert (118-126)
ResourceAccessSteps(c, node) ==
  LET c1 == IF Len(c.cache_[node].history_) = c.k_ THEN SetErase(c, node) ELSE c
      ts == (c1.current_timestamp_ + 1) % (TimestampMax + 1)  \* unsigned ++
      c2 == [c1 EXCEPT !.current_timestamp_ = ts,
                       !.cache_[node].history_ = Record(@, ts, c.k_)]
      c3 == IF Len(c2.cache_[node].history_) = c2.k_
            THEN SetInsert([c2 EXCEPT !.cache_[node].is_evictable_ = TRUE], node)
            ELSE c2
  IN <<c1, c2, c3>>

\* ResourceAccess(node), when it does not throw
ResourceAccess(c, node) == ResourceAccessSteps(c, node)[3]

\* mutant: entries with fewer than K accesses are evicted first
EvictSubKFirst(c) ==
  IF size(c) < c.capacity_ THEN c
  ELSE LET es == c.eviction_set_
           sub == {x \in DOMAIN c.cache_ : Len(c.cache_[x].history_) < c.k_}
       IN IF sub # {} THEN [c EXCEPT !.cache_ = MapErase(@, Min(sub))]
          ELSE IF es = <<>> THEN c
          ELSE [c EXCEPT !.eviction_set_ = Tail(es),
                         !.cache_ = MapErase(@, c.cache_[es[1]].key_)]

\* mutant: eviction starts one entry below capacity
EvictEarly(c) ==
  IF size(c) + 1 < c.capacity_ THEN c
  ELSE LET es == c.eviction_set_
       IN IF es = <<>> THEN c
          ELSE [c EXCEPT !.eviction_set_ = Tail(es),
                         !.cache_ = MapErase(@, c.cache_[es[1]].key_)]

\* mutant: the loop does not stop at the first evictable member
EvictAllEvictable(c) ==
  IF size(c) < c.capacity_ THEN c
  ELSE LET gone == {x \in SeqToSet(c.eviction_set_) : c.cache_[x].is_evictable_}
       IN [c EXCEPT !.eviction_set_ = SelectSeq(@, LAMBDA e : e \notin gone),
                    !.cache_ = [x \in (DOMAIN @) \ gone |-> @[x]]]

\* Evict()
Evict(c) ==
  IF size(c) < c.capacity_ THEN c
  ELSE LET es == c.eviction_set_
           idx == {i \in 1..Len(es) : c.cache_[es[i]].is_evictable_}
       IN IF idx = {} THEN c
          ELSE LET i == Min(idx)
                   node == es[i]
               IN [c EXCEPT !.eviction_set_ = RemoveAt(es, i),
                            !.cache_ = MapErase(@, c.cache_[node].key_)]

\* mutant: the clock ticks before the lookup
GetObjTicksOnMiss(c, key) ==
  IF Overflow(c) THEN c
  ELSE IF ~contains(c, key) THEN [c EXCEPT !.current_timestamp_ = @ + 1]
  ELSE ResourceAccess(c, key)

\* Get(key): the object afterwards, and the result
GetObj(c, key) ==
  IF ~contains(c, key) THEN c
  ELSE IF Overflow(c) THEN c
  ELSE ResourceAccess(c, key)

GetRet(c, key) ==
  IF ~contains(c, key) THEN Nullopt
  ELSE IF Overflow(c) THEN RuntimeError
  ELSE Some(c.cache_[key].value_)

\* mutant: contains looks the key up through Get
ContainsObjTouches(c, key) == GetObj(c, key)

\* contains(key): the object afterwards (a const member function)
ContainsObj(c, key) == c

\* size(): the object afterwards (a const member function)
SizeObj(c) == c

\* mutant: Evict() runs before the lookup
PutObjEvictFirst(c, key, value) ==
  LET c0 == Evict(c)
  IN IF contains(c0, key)
     THEN IF Overflow(c0) THEN c0
          ELSE [ResourceAccess(c0, key) EXCEPT !.cache_[key].value_ = value]
     ELSE LET c2 == [c0 EXCEPT !.cache_ = MapPut(@, key, LRUNode(key, value))]
          IN IF Overflow(c2) THEN c2 ELSE ResourceAccess(c2, key)

\* Put(key, value): the object afterwards, and the result
PutObj(c, key, value) ==
  IF contains(c, key)
  THEN IF Overflow(c) THEN c
       ELSE [ResourceAccess(c, key) EXCEPT !.cache_[key].value_ = value]
  ELSE LET c1 == Evict(c)
           c2 == [c1 EXCEPT !.cache_ = MapPut(@, key, LRUNode(key, value))]
       IN IF Overflow(c2) THEN c2 ELSE ResourceAccess(c2, key)

PutRet(c, key, value) == IF Overflow(c) THEN RuntimeError ELSE Void

\* mutant: the clock restarts when the last entry is removed
RemoveObjResetsClock(c, key) ==
  IF ~contains(c, key) THEN c
  ELSE LET node == c.cache_[key]
           c1 == IF Len(node.history_) = c.k_ /\ node.is_evictable_
                 THEN SetErase(c, key) ELSE c
           c2 == [c1 EXCEPT !.cache_ = MapErase(@, key)]
       IN IF size(c2) = 0 THEN [c2 EXCEPT !.current_timestamp_ = 0] ELSE c2

\* mutant: the test of the evictable flag is inverted
RemoveObjFlagInverted(c, key) ==
  IF ~contains(c, key) THEN c
  ELSE LET node == c.cache_[key]
           c1 == IF Len(node.history_) = c.k_ /\ ~node.is_evictable_
                 THEN SetErase(c, key) ELSE c
       IN [c1 EXCEPT !.cache_ = MapErase(@, key)]

\* mutant: the node is not erased from the eviction set
RemoveObjKeepsMember(c, key) ==
  IF ~contains(c, key) THEN c
  ELSE [c EXCEPT !.cache_ = MapErase(@, key)]

\* mutant: true whether or not the key was found
RemoveRetAlwaysTrue(c, key) == Bool(TRUE)

\* Remove(k): the object afterwards, and the result
RemoveObj(c, key) ==
  IF ~contains(c, key) THEN c
  ELSE LET node == c.cache_[key]
           c1 == IF Len(node.history_) = c.k_ /\ node.is_evictable_
                 THEN SetErase(c, key) ELSE c
       IN [c1 EXCEPT !.cache_ = MapErase(@, key)]

RemoveRet(c, key) == Bool(contains(c, key))

\* ---------------------------------------------------------------- LRUCache
\* Node pointers are heap addresses 1, 2, ...; nullptr is 0.  std::nullopt in
\* Node::key and Node::value is 0 (keys and values start at 1).
Null == 0

\* Node(): a sentinel
Sentinel == [key |-> 0, value |-> 0, next |-> Null, prev |-> Null]

\* Node(key, value)
Node(key, value) == [key |-> key, value |-> value, next |-> Null, prev |-> Null]

\* new: some address not in use (the lowest one)
New(heap) == Min({a \in 1..(Cardinality(DOMAIN heap) + 1) : a \notin DOMAIN heap})

\* delete node
Delete(heap, node) == [a \in (DOMAIN heap) \ {node} |-> heap[a]]

\* link(node1, node2)
link(heap, node1, node2) == [heap EXCEPT ![node1].next = node2, ![node2].prev = node1]

\* mutant: the node is linked in before _tail
addBeforeTail(c, node) ==
  LET tail_prev == c.heap[c._tail].prev
  IN [c EXCEPT !.heap = link(link(c.heap, tail_prev, node), node, c._tail)]

\* add(node): right behind _head
add(c, node) ==
  LET head_next == c.heap[c._head].next
  IN [c EXCEPT !.heap = link(link(c.heap, node, head_next), c._head, node)]

\* mutant: only the next pointer of the predecessor is set
removeForwardOnly(c, node) ==
  LET prev_node == c.heap[node].prev
      next_node == c.heap[node].next
  IN [c EXCEPT !.heap[prev_node].next = next_node]

\* remove(node): unlink
remove(c, node) ==
  LET prev_node == c.heap[node].prev
      next_node == c.heap[node].next
  IN [c EXCEPT !.heap = link(c.heap, prev_node, next_node)]

\* LRUCache(capacity)
LRUCache(capacity) ==
  LET h0 == [a \in {1, 2} |-> Sentinel]
  IN [_capacity |-> capacity,
      _cache_mapper |-> EmptyMap,
      heap |-> link(h0, 1, 2),
      _head |-> 1,
      _tail |-> 2]

\* mutant: one entry more than the capacity is tolerated
SizeGreaterOffByOne(sz, capacity) == IF capacity < 0 THEN FALSE ELSE sz > capacity + 1

\* _cache_mapper.size() > _capacity: the int is converted to size_t, so a
\* negative capacity becomes 2^64 + capacity, above every size
SizeGreater(sz, capacity) == IF capacity < 0 THEN FALSE ELSE sz > capacity

\* mutant: the entry behind _head is evicted instead of the one before _tail
putEvictsNewest(c, key, value) ==
  LET c1 == IF key \in DOMAIN c._cache_mapper
            THEN LET old_node == c._cache_mapper[key]
                     u == remove(c, old_node)
                 IN [u EXCEPT !.heap = Delete(@, old_node)]
            ELSE c
      new_node == New(c1.heap)
      c2 == [c1 EXCEPT !.heap = [a \in (DOMAIN c1.heap) \cup {new_node} |->
                                   IF a = new_node THEN Node(key, value) ELSE c1.heap[a]],
                       !._cache_mapper = MapPut(@, key, new_node)]
      c3 == add(c2, new_node)
  IN IF SizeGreater(Cardinality(DOMAIN c3._cache_mapper), c3._capacity)
     THEN LET victim == c3.heap[c3._head].next
              c4 == remove(c3, victim)
              c5 == [c4 EXCEPT !._cache_mapper = MapErase(@, c4.heap[victim].key)]
          IN [c5 EXCEPT !.heap = Delete(@, victim)]
     ELSE c3

\* put(key, value)
put(c, key, value) ==
  LET c1 == IF key \in DOMAIN c._cache_mapper
            THEN LET old_node == c._cache_mapper[key]
                     u == remove(c, old_node)
                 IN [u EXCEPT !.heap = Delete(@, old_node)]
            ELSE c
      new_node == New(c1.heap)
      c2 == [c1 EXCEPT !.heap = [a \in (DOMAIN c1.heap) \cup {new_node} |->
                                   IF a = new_node THEN Node(key, value) ELSE c1.heap[a]],
                       !._cache_mapper = MapPut(@, key, new_node)]
      c3 == add(c2, new_node)
  IN IF SizeGreater(Cardinality(DOMAIN c3._cache_mapper), c3._capacity)
     THEN LET tail_prev == c3.heap[c3._tail].prev
              c4 == remove(c3, tail_prev)
              c5 == IF c4.heap[tail_prev].key # 0
                    THEN [c4 EXCEPT !._cache_mapper = MapErase(@, c4.heap[tail_prev].key)]
                    ELSE c4
          IN [c5 EXCEPT !.heap = Delete(@, tail_prev)]
     ELSE c3

\* mutant: get leaves the node where it is in the list
getObjNoMove(c, key) == c

\* get(key): the object afterwards, and the result
getObj(c, key) ==
  IF key \in DOMAIN c._cache_mapper
  THEN LET node == c._cache_mapper[key] IN add(remove(c, node), node)
  ELSE c

getRet(c, key) ==
  IF key \in DOMAIN c._cache_mapper
  THEN Some(c.heap[c._cache_mapper[key]].value)
  ELSE Nullopt

\* -------------------------------------------------------- DoublyLinkedList
\* node<type>* are heap addresses 1, 2, ...; nullptr is Null.
\* A member function is the pair of the object afterwards and its result.
Outcome(obj, result) == [obj |-> obj, ret |-> result]

\* node(data)
ListNode(data) == [data |-> data, next |-> Null, prev |-> Null]

\* DoublyLinkedList()
DoublyLinkedList == [_head |-> Null, _tail |-> Null, _length |-> 0, heap |-> EmptyMap]

\* size()
List_size(l) == l._length

\* empty()
List_empty(l) == l._length = 0

\* push_back(item)
List_push_back(l, item) ==
  LET new_node == New(l.heap)
      h0 == [a \in (DOMAIN l.heap) \cup {new_node} |->
               IF a = new_node THEN ListNode(item) ELSE l.heap[a]]
  IN IF l._head = Null
     THEN [l EXCEPT !.heap = h0, !._head = new_node, !._tail = new_node,
                    !._length = (@ + 1) % (SizeMax + 1)]
     ELSE [l EXCEPT !.heap = [h0 EXCEPT ![l._tail].next = new_node,
                                        ![new_node].prev = l._tail],
                    !._tail = new_node,
                    !._length = (@ + 1) % (SizeMax + 1)]

\* pop_back()
List_pop_back(l) ==
  IF l._tail = Null THEN Outcome(l, RuntimeError)
  ELSE LET deleted_node == l._tail
           l1 == IF l.heap[l._tail].prev # Null
                 THEN LET t == l.heap[l._tail].prev
                      IN [l EXCEPT !._tail = t, !.heap[t].next = Null]
                 ELSE [l EXCEPT !._head = Null, !._tail = Null]
       IN Outcome([l1 EXCEPT !.heap = Delete(@, deleted_node),
                             !._length = (@ - 1) % (SizeMax + 1)], Void)

\* pop_front()
List_pop_front(l) ==
  IF l._head = Null THEN Outcome(l, RuntimeError)
  ELSE LET deleted_node == l._head
           l1 == IF l.heap[l._head].next # Null
                 THEN LET h == l.heap[l._head].next
                      IN [l EXCEPT !._head = h, !.heap[h].prev = Null]
                 ELSE [l EXCEPT !._head = Null, !._tail = Null]
       IN Outcome([l1 EXCEPT !.heap = Delete(@, deleted_node),
                             !._length = (@ - 1) % (SizeMax + 1)], Void)

\* back()
List_back(l) == IF l._tail = Null THEN RuntimeError ELSE Some(l.heap[l._tail].data)

\* front()
List_front(l) == IF l._head = Null THEN RuntimeError ELSE Some(l.heap[l._head].data)

\* clear(): pop_back() as long as the list is not empty
RECURSIVE List_clear(_)
List_clear(l) ==
  IF List_empty(l) THEN Outcome(l, Void)
  ELSE LET o == List_pop_back(l)
       IN IF o.ret = RuntimeError THEN o ELSE List_clear(o.obj)

\* ------------------------------------------------------------------- Stack
\* push(item)
Stack_push(l, item) == Outcome(List_push_back(l, item), Void)

\* empty()
Stack_empty(l) == List_empty(l)

\* top()
Stack_top(l) == Outcome(l, IF Stack_empty(l) THEN Nullopt ELSE List_back(l))

\* mutant: the element at the other end is removed
Stack_popOldest(l) == IF ~Stack_empty(l) THEN List_pop_front(l) ELSE Outcome(l, Void)

\* pop()
Stack_pop(l) == IF ~Stack_empty(l) THEN List_pop_back(l) ELSE Outcome(l, Void)

\* clear()
Stack_clear(l) == List_clear(l)

\* size()
Stack_size(l) == Outcome(l, SizeT(List_size(l)))

\* ------------------------------------------------------------------- Queue
\* (the documented class, src/src/vector.hpp 725-881)
\* push(data)
Queue_push(l, data) == Outcome(List_push_back(l, data), Void)

\* empty()
Queue_empty(l) == List_empty(l)

\* front()
Queue_front(l) == Outcome(l, IF Queue_empty(l) THEN Nullopt ELSE List_front(l))

\* back()
Queue_back(l) == Outcome(l, IF Queue_empty(l) THEN Nullopt ELSE List_back(l))

\* mutant: the test of pop is inverted
Queue_popWhenEmpty(l) == IF List_empty(l) THEN List_pop_front(l) ELSE Outcome(l, Void)

\* pop()
Queue_pop(l) == IF ~List_empty(l) THEN List_pop_front(l) ELSE Outcome(l, Void)

\* size()
Queue_size(l) == Outcome(l, SizeT(List_size(l)))

\* clear()
Queue_clear(l) == List_clear(l)

\* ------------------------------------------------------------------ Vector
\* _data_array is the array new type[_capacity], indexed from 0.  A slot holds
\* an element, or type{} (DefaultValue), or what new type[n] left there
\* (Indeterminate: nothing was written to it; reading it gives any value).
DefaultValue == 0
Indeterminate == -1
SlotValues == Values \cup {DefaultValue}

\* new type[n]
NewArray(n) == [i \in 0..(n - 1) |-> Indeterminate]

\* results of Vector: std::logic_error, and the end of the process after an
\* access outside the array
LogicError == [kind |-> "logic_error", val |-> 0]
Crash == [kind |-> "crash", val |-> 0]

\* Vector()
Vector == [_size |-> 0, _capacity |-> DefaultCapacity,
           _data_array |-> NewArray(DefaultCapacity)]

\* Vector(std::initializer_list<type> _list)
VectorOf(_list) ==
  [_size |-> Len(_list), _capacity |-> Len(_list),
   _data_array |-> [i \in 0..(Len(_list) - 1) |-> _list[i + 1]]]

\* the elements of v, from position 0 to position size() - 1
Elements(v) == [i \in 0..(v._size - 1) |-> v._data_array[i]]

\* reallocate(new_capacity)
reallocate(v, new_capacity) ==
  LET n == IF new_capacity < v._size THEN v._size ELSE new_capacity
  IN IF n = 0
     THEN [v EXCEPT !._capacity = 0, !._size = 0, !._data_array = NewArray(0)]
     ELSE [v EXCEPT !._capacity = n,
                    !._data_array = [i \in 0..(n - 1) |->
                                       IF i < v._size THEN v._data_array[i]
                                       ELSE Indeterminate]]

\* extend()
extend(v) ==
  reallocate(v, IF v._capacity = 0 THEN DefaultCapacity ELSE v._capacity * 2)

\* push_back(item)
Vector_push_back(v, item) ==
  LET v1 == IF v._size = v._capacity THEN extend(v) ELSE v
  IN Outcome([v1 EXCEPT !._data_array[v1._size] = item, !._size = @ + 1], Void)

\* pop_back()
Vector_pop_back(v) ==
  IF v._size = 0 THEN Outcome(v, RuntimeError)
  ELSE Outcome([v EXCEPT !._data_array[v._size - 1] = DefaultValue,
                         !._size = @ - 1], Void)

\* clear()
Vector_clear(v) ==
  Outcome([v EXCEPT !._size = 0, !._capacity = DefaultCapacity,
                    !._data_array = NewArray(DefaultCapacity)], Void)

\* what reading slot index of the array gives: the values a read can produce,
\* and whether the process can end there (index is outside the array)
ReadSlot(v, index) ==
  IF index >= v._capacity THEN [values |-> SlotValues, crash |-> TRUE]
  ELSE IF v._data_array[index] = Indeterminate
       THEN [values |-> SlotValues, crash |-> FALSE]
       ELSE [values |-> {v._data_array[index]}, crash |-> FALSE]

\* at(index): the outcomes it can have
Vector_at(v, index) ==
  IF index > v._capacity THEN {Outcome(v, LogicError)}
  ELSE LET r == ReadSlot(v, index)
       IN {Outcome(v, Some(x)) : x \in r.values}
            \cup (IF r.crash THEN {Outcome(v, Crash)} ELSE {})

\* the result of reverse(): accessed is the set of the positions of
\* _data_array it read or wrote
Reversed(kind, accessed) == [kind |-> kind, val |-> 0, accessed |-> accessed]

\* std::swap(_data_array[l], _data_array[r]), both inside the array
Swap(v, l, r) ==
  [v EXCEPT !._data_array[l] = v._data_array[r], !._data_array[r] = v._data_array[l]]

\* std::swap(_data_array[l], _data_array[r]) with r outside the array: the
\* process ends, or reverse() returns and slot l (if inside the array) holds
\* whatever was read from outside
SwapOutside(v, l, r, accessed) ==
  {Outcome(v, Reversed("crash", accessed \cup {l, r}))}
    \cup {Outcome(v, Reversed("void", accessed \cup {l, r}))}
    \cup (IF l < v._capacity
          THEN {Outcome([v EXCEPT !._data_array[l] = x],
                        Reversed("void", accessed \cup {l, r})) : x \in SlotValues}
          ELSE {})

\* the loop of reverse(): for (l, r; l < r; l++, r--) swap
RECURSIVE ReverseLoop(_, _, _, _)
ReverseLoop(v, l, r, accessed) ==
  IF ~(l < r) THEN {Outcome(v, Reversed("void", accessed))}
  ELSE IF r >= v._capacity THEN SwapOutside(v, l, r, accessed)
  ELSE ReverseLoop(Swap(v, l, r), l + 1, r - 1, accessed \cup {l, r})

\* reverse(): size_t r = _size - 1 wraps when _size is 0
Vector_reverse(v) == ReverseLoop(v, 0, (v._size - 1) % (SizeMax + 1), {})

\* ------------------------------------------ comparator calls of LRU_K_Cache
\* eviction_set_.erase(node) and eviction_set_.insert(node) look node up in
\* the tree of the std::set: the comparator is called on node and members of
\* the set, in both argument orders, and not at all when the set is empty.
\* Which members the descent meets is up to the tree; CompareCalls lists the
\* calls it can make.  Evict() erases through an iterator, without a lookup.
CompareCalls(c, node) ==
  {<<m, node>> : m \in SeqToSet(c.eviction_set_)}
    \cup {<<node, m>> : m \in SeqToSet(c.eviction_set_)}

\* the entries on which Compare::operator()(a, b) calls history_.front():
\* none when a or b has fewer than k_ timestamps (it returns before), both
\* otherwise
FrontReads(c, a, b) ==
  IF Len(c.cache_[a].history_) < c.k_ \/ Len(c.cache_[b].history_) < c.k_
  THEN {} ELSE {a, b}

\* the lookup of node in the eviction set of c calls front() on an empty
\* history_, which is undefined for std::deque
ReadsEmptyFront(c, node) ==
  \E p \in CompareCalls(c, node) :
    \E x \in FrontReads(c, p[1], p[2]) : c.cache_[x].history_ = <<>>

\* mutant: the node is erased from the set whatever the length of its history
AccessLookupsUnguarded(c, node) ==
  LET c2 == ResourceAccessSteps(c, node)[2]
  IN {<<c, node>>} \cup (IF Len(c2.cache_[node].history_) = c2.k_
                         THEN {<<c2, node>>} ELSE {})

\* the lookups ResourceAccess(node) makes on c, each as the pair of the
\* object at the lookup and node: erase (line 109), then insert (line 124)
AccessLookups(c, node) ==
  LET erased == IF Len(c.cache_[node].history_) = c.k_ THEN {<<c, node>>} ELSE {}
  IN IF \E l \in erased : ReadsEmptyFront(l[1], l[2]) THEN erased
     ELSE LET c2 == ResourceAccessSteps(c, node)[2]
          IN erased \cup (IF Len(c2.cache_[node].history_) = c2.k_
                          THEN {<<c2, node>>} ELSE {})

\* the lookups the call name(key, value) makes on c
CallLookups(name, key, value, c) ==
  IF name = "Get" /\ contains(c, key) /\ ~Overflow(c) THEN AccessLookups(c, key)
  ELSE IF name = "Put" /\ contains(c, key) /\ ~Overflow(c) THEN AccessLookups(c, key)
  ELSE IF name = "Put" /\ ~contains(c, key) /\ ~Overflow(c)
       THEN AccessLookups([Evict(c) EXCEPT
                             !.cache_ = MapPut(@, key, LRUNode(key, value))], key)
  ELSE IF name = "Remove" /\ contains(c, key)
          /\ Len(c.cache_[key].history_) = c.k_ /\ c.cache_[key].is_evictable_
       THEN {<<c, key>>}
  ELSE {}

\* the call name(key, value) on c runs into undefined behaviour
CallIsUndefined(name, key, value, c) ==
  \E l \in CallLookups(name, key, value, c) : ReadsEmptyFront(l[1], l[2])

\* After a front() on an empty history_ the comparator has compared values
\* that are not timestamps: an erase may miss its node or take another
\* member, an insert may be rejected or land anywhere; or the process ends.
Undefined == [kind |-> "undefined", val |-> 0]

ArbitraryErase(es) == {es} \cup {RemoveAt(es, i) : i \in 1..Len(es)}

ArbitraryInsert(es, node) == {es} \cup {InsertAt(es, i, node) : i \in 1..(Len(es) + 1)}

\* the objects ResourceAccess(node) can leave when a lookup of it is undefined
AccessUndefined(c, node) ==
  LET ts == (c.current_timestamp_ + 1) % (TimestampMax + 1)
      h == Record(c.cache_[node].history_, ts, c.k_)
      full == Len(h) = c.k_
      c2 == [c EXCEPT !.current_timestamp_ = ts,
                      !.cache_[node].history_ = h,
                      !.cache_[node].is_evictable_ = IF full THEN TRUE ELSE @]
      erased == IF Len(c.cache_[node].history_) = c.k_
                THEN ArbitraryErase(c.eviction_set_) ELSE {c.eviction_set_}
  IN {[c2 EXCEPT !.eviction_set_ = es2] :
        es2 \in UNION {IF full THEN ArbitraryInsert(es1, node) ELSE {es1} :
                         es1 \in erased}}

\* the outcomes of the call name(key, value) on c when it is undefined
CallUndefined(name, key, value, c) ==
  LET objs ==
        IF name = "Get" THEN AccessUndefined(c, key)
        ELSE IF name = "Put" /\ contains(c, key)
             THEN {[o EXCEPT !.cache_[key].value_ = value] : o \in AccessUndefined(c, key)}
        ELSE IF name = "Put"
             THEN AccessUndefined([Evict(c) EXCEPT
                                     !.cache_ = MapPut(@, key, LRUNode(key, value))], key)
        ELSE {[c EXCEPT !.eviction_set_ = es, !.cache_ = MapErase(@, key)] :
                es \in ArbitraryErase(c.eviction_set_)}
  IN {Outcome(c, Crash)} \cup {Outcome(o, Undefined) : o \in objs}

\* ----------------------------------------------------------------- actions
\* the class that was not constructed
NotConstructed == [constructed |-> FALSE]

\* The caller's record of a run, kept beside the cache:
\*   accesses  LRU_K_Cache: calls of Get on an indexed key and of Put that returned
\*   within    LRU_K_Cache: Remove was not called and Put was called with at
\*             most capacity_ distinct keys
\*   distinct  LRU_K_Cache: the keys Put was called with, as long as within holds
\*   failed    side-by-side run: some LRU_K_Cache call failed with clock exhaustion
\*   recency   LRUCache: the keys put or found by get, most recent first
\*   pushed    Stack, Queue: the elements pushed and neither popped nor cleared
\*             yet, in the order of their push
\*   recorded  LRU_K_Cache: for every indexed key, the number of calls of Get
\*             and Put on it that returned since the Put that created its
\*             entry, that Put included; counted up to MaxK
\*   reference run beside a reference map: the map, from key to value
Log0 == [accesses |-> 0, within |-> TRUE, distinct |-> {}, failed |-> FALSE,
         recency |-> <<>>, pushed |-> <<>>, recorded |-> EmptyMap,
         reference |-> EmptyMap]

\* the record after a call of name(key) on LRU_K_Cache c that ended with result
LogCall(name, key, result, c) ==
  LET keys == IF name = "Put" THEN log.distinct \cup {key} ELSE log.distinct
      within == log.within /\ name # "Remove" /\ Cardinality(keys) <= c.capacity_
  IN [log EXCEPT
        !.accesses = IF result.kind # "runtime_error"
                        /\ (name = "Put" \/ (name = "Get" /\ contains(c, key)))
                     THEN @ + 1 ELSE @,
        !.within = within,
        !.distinct = IF within THEN keys ELSE {}]

\* the accesses recorded per indexed key after a call of name(key) on
\* LRU_K_Cache c that ended with result and left obj
Recorded(name, key, result, c, obj) ==
  LET old == [x \in DOMAIN obj.cache_ |->
                IF contains(c, x) THEN log.recorded[x] ELSE 0]
  IN IF result.kind # "runtime_error" /\ contains(obj, key)
        /\ (name = "Put" \/ (name = "Get" /\ contains(c, key)))
     THEN [old EXCEPT ![key] = IF @ < MaxK THEN @ + 1 ELSE @]
     ELSE old

\* the record after put(key), or after get(key) that found the key
Touch(key) ==
  [log EXCEPT !.recency = <<key>> \o SelectSeq(@, LAMBDA e : e # key)]

\* a call on the LRU_K_Cache
Call(name, key, value, obj, result) ==
  /\ inst = "LRU_K_Cache"
  /\ op' = [name |-> name, key |-> key, value |-> value]
  /\ ret' = result
  /\ pre' = lruk
  /\ lruk' = obj
  /\ log' = [LogCall(name, key, result, lruk) EXCEPT
               !.recorded = Recorded(name, key, result, lruk, obj)]
  /\ UNCHANGED <<inst, lru, list_, vector>>

\* a call on the LRUCache
LruCall(name, key, value, obj, result) ==
  /\ inst = "LRUCache"
  /\ op' = [name |-> name, key |-> key, value |-> value]
  /\ ret' = result
  /\ pre' = lru
  /\ lru' = obj
  /\ log' = IF name = "put" \/ result.kind = "value" THEN Touch(key) ELSE log
  /\ UNCHANGED <<inst, lruk, list_, vector>>

Get(key) ==
  /\ Call("Get", key, 0, GetObj(lruk, key), GetRet(lruk, key))
  /\ fresh' = -1

Put(key, value) ==
  /\ Call("Put", key, value, PutObj(lruk, key, value), PutRet(lruk, key, value))
  /\ fresh' = IF fresh >= 0 /\ ~contains(lruk, key) THEN fresh + 1 ELSE -1

Remove(key) ==
  /\ Call("Remove", key, 0, RemoveObj(lruk, key), RemoveRet(lruk, key))
  /\ fresh' = -1

Contains(key) ==
  /\ Call("contains", key, 0, ContainsObj(lruk, key), Bool(contains(lruk, key)))
  /\ fresh' = -1

Size ==
  /\ Call("size", 0, 0, SizeObj(lruk), SizeT(size(lruk)))
  /\ fresh' = -1

LruPut(key, value) ==
  /\ LruCall("put", key, value, put(lru, key, value), Void)
  /\ fresh' = -1

LruGet(key) ==
  /\ LruCall("get", key, 0, getObj(lru, key), getRet(lru, key))
  /\ fresh' = -1

InitLRUK ==
  /\ inst = "LRU_K_Cache"
  /\ \E cache_size \in 0..MaxCapacity, k \in 1..MaxK : lruk = LRU_K_Cache(cache_size, k)
  /\ lru = NotConstructed
  /\ pre = lruk

InitLRU ==
  /\ inst = "LRUCache"
  /\ \E capacity \in (-1)..MaxCapacity : lru = LRUCache(capacity)
  /\ lruk = NotConstructed
  /\ pre = lru

Init ==
  /\ InitLRUK \/ InitLRU
  /\ op = NoOp
  /\ ret = Void
  /\ fresh = 0
  /\ log = Log0
  /\ list_ = NotConstructed
  /\ vector = NotConstructed

Next ==
  \/ \E key \in Keys : Get(key)
  \/ \E key \in Keys, value \in Values : Put(key, value)
  \/ \E key \in Keys : Remove(key)
  \/ \E key \in Keys : Contains(key)
  \/ Size
  \/ \E key \in Keys, value \in Values : LruPut(key, value)
  \/ \E key \in Keys : LruGet(key)

Spec == Init /\ [][Next]_vars

\* ------------------------------------------------------ the side-by-side run
\* An LRUCache and an LRU_K_Cache with K = 1, constructed with the same
\* capacity, are given the same calls.  pre and ret hold the two objects
\* before the call and the two results.
PairCall(name, key, value, lruObj, lruResult, lrukObj, lrukResult) ==
  /\ inst = "pair"
  /\ op' = [name |-> name, key |-> key, value |-> value]
  /\ ret' = [kind |-> "pair", lru |-> lruResult, lruk |-> lrukResult]
  /\ pre' = [lru |-> lru, lruk |-> lruk]
  /\ lru' = lruObj
  /\ lruk' = lrukObj
  /\ log' = [log EXCEPT !.failed = @ \/ lrukResult.kind = "runtime_error"]
  /\ UNCHANGED <<inst, fresh, list_, vector>>

PairPut(key, value) ==
  PairCall("put", key, value, put(lru, key, value), Void,
           PutObj(lruk, key, value), PutRet(lruk, key, value))

PairGet(key) ==
  PairCall("get", key, 0, getObj(lru, key), getRet(lru, key),
           GetObj(lruk, key), GetRet(lruk, key))

InitPair ==
  /\ inst = "pair"
  /\ \E capacity \in 1..MaxCapacity :
       /\ lru = LRUCache(capacity)
       /\ lruk = LRU_K_Cache(capacity, 1)
  /\ pre = [lru |-> lru, lruk |-> lruk]
  /\ op = NoOp
  /\ ret = [kind |-> "pair", lru |-> Void, lruk |-> Void]
  /\ fresh = -1
  /\ log = Log0
  /\ list_ = NotConstructed
  /\ vector = NotConstructed

NextPair ==
  \/ \E key \in Keys, value \in Values : PairPut(key, value)
  \/ \E key \in Keys : PairGet(key)

SpecPair == InitPair /\ [][NextPair]_vars

\* ------------------------------------------------------------ the containers
\* A behaviour constructs a Stack, a Queue or a Vector and calls its member
\* functions.  No call follows one that ended the process.
Alive == ret.kind # "crash"

\* the elements pushed and not removed yet, after a call of name
Pushed(name, item, oldestFirst) ==
  LET p == log.pushed
  IN IF name = "push" THEN Append(p, item)
     ELSE IF name = "clear" THEN <<>>
     ELSE IF name = "pop" /\ p # <<>>
          THEN (IF oldestFirst THEN Tail(p) ELSE SubSeq(p, 1, Len(p) - 1))
     ELSE p

\* a call on the Stack or on the Queue
ListCall(name, item, o) ==
  /\ op' = [name |-> name, key |-> 0, value |-> item]
  /\ ret' = o.ret
  /\ pre' = list_
  /\ list_' = o.obj
  /\ log' = [log EXCEPT !.pushed = Pushed(name, item, inst = "Queue")]
  /\ UNCHANGED <<inst, lruk, lru, fresh, vector>>

StackPush(item) ==
  /\ inst = "Stack"
  /\ List_size(list_) < MaxLen
  /\ ListCall("push", item, Stack_push(list_, item))

StackTop ==
  /\ inst = "Stack"
  /\ ListCall("top", 0, Stack_top(list_))

StackPop ==
  /\ inst = "Stack"
  /\ ListCall("pop", 0, Stack_pop(list_))

StackClear ==
  /\ inst = "Stack"
  /\ ListCall("clear", 0, Stack_clear(list_))

StackSize ==
  /\ inst = "Stack"
  /\ ListCall("size", 0, Stack_size(list_))

QueuePush(data) ==
  /\ inst = "Queue"
  /\ List_size(list_) < MaxLen
  /\ ListCall("push", data, Queue_push(list_, data))

QueueFront ==
  /\ inst = "Queue"
  /\ ListCall("front", 0, Queue_front(list_))

QueueBack ==
  /\ inst = "Queue"
  /\ ListCall("back", 0, Queue_back(list_))

QueuePop ==
  /\ inst = "Queue"
  /\ ListCall("pop", 0, Queue_pop(list_))

QueueClear ==
  /\ inst = "Queue"
  /\ ListCall("clear", 0, Queue_clear(list_))

QueueSize ==
  /\ inst = "Queue"
  /\ ListCall("size", 0, Queue_size(list_))

\* a call on the Vector
VectorCall(name, index, item, o) ==
  /\ op' = [name |-> name, key |-> index, value |-> item]
  /\ ret' = o.ret
  /\ pre' = vector
  /\ vector' = o.obj
  /\ UNCHANGED <<inst, lruk, lru, fresh, log, list_>>

VectorPushBack(item) ==
  /\ inst = "Vector" /\ Alive
  /\ vector._size < MaxLen
  /\ VectorCall("push_back", 0, item, Vector_push_back(vector, item))

VectorPopBack ==
  /\ inst = "Vector" /\ Alive
  /\ VectorCall("pop_back", 0, 0, Vector_pop_back(vector))

VectorClear ==
  /\ inst = "Vector" /\ Alive
  /\ VectorCall("clear", 0, 0, Vector_clear(vector))

VectorAt(index) ==
  /\ inst = "Vector" /\ Alive
  /\ \E o \in Vector_at(vector, index) : VectorCall("at", index, 0, o)

VectorReverse ==
  /\ inst = "Vector" /\ Alive
  /\ \E o \in Vector_reverse(vector) : VectorCall("reverse", 0, 0, o)

\* the lists of at most n elements
RECURSIVE Lists(_)
Lists(n) ==
  IF n = 0 THEN {<<>>}
  ELSE Lists(n - 1) \cup {Append(l, x) : l \in {m \in Lists(n - 1) : Len(m) = n - 1}, x \in Values}

\* the indexes at is called with
Indexes == 0..(DefaultCapacity + 1)

InitContainers ==
  /\ \/ /\ inst \in {"Stack", "Queue"}
        /\ list_ = DoublyLinkedList
        /\ vector = NotConstructed
        /\ pre = list_
     \/ /\ inst = "Vector"
        /\ vector \in {Vector} \cup {VectorOf(l) : l \in Lists(MaxLen)}
        /\ list_ = NotConstructed
        /\ pre = vector
  /\ lruk = NotConstructed
  /\ lru = NotConstructed
  /\ op = NoOp
  /\ ret = Void
  /\ fresh = -1
  /\ log = Log0

NextContainers ==
  \/ \E item \in Values : StackPush(item)
  \/ StackTop
  \/ StackPop
  \/ StackClear
  \/ StackSize
  \/ \E data \in Values : QueuePush(data)
  \/ QueueFront
  \/ QueueBack
  \/ QueuePop
  \/ QueueClear
  \/ QueueSize
  \/ \E item \in Values : VectorPushBack(item)
  \/ VectorPopBack
  \/ VectorClear
  \/ \E index \in Indexes : VectorAt(index)
  \/ VectorReverse

SpecContainers == InitContainers /\ [][NextContainers]_vars

\* ------------------------------------------------------------ two instances
\* Two LRU_K_Cache objects constructed with the same arguments are given the
\* same calls; lruk, pre and ret hold the two objects and the two results.
\* What the two runs do not share is where operator new puts a node: each
\* object carries address_, the address of the node of each key in its run.
\* (cache_ is never iterated, so the bucket order of the unordered_map has no
\* reader at all.)
\* The first run allocates in the order of the keys; the second in the same
\* or in the opposite order.
Addresses == {[x \in Keys |-> x], [x \in Keys |-> NumKeys + 1 - x]}

Placed(c, a) ==
  [capacity_ |-> c.capacity_, k_ |-> c.k_, cache_ |-> c.cache_,
   eviction_set_ |-> c.eviction_set_, current_timestamp_ |-> c.current_timestamp_,
   address_ |-> a]

TwinCall(name, key, value, obj1, result1, obj2, result2) ==
  /\ inst = "twins"
  /\ op' = [name |-> name, key |-> key, value |-> value]
  /\ ret' = [kind |-> "twins", first |-> result1, second |-> result2]
  /\ pre' = lruk
  /\ lruk' = [first |-> obj1, second |-> obj2]
  /\ UNCHANGED <<inst, lru, fresh, log, list_, vector>>

TwinGet(key) ==
  /\ inst = "twins"
  /\ TwinCall("Get", key, 0, GetObj(lruk.first, key), GetRet(lruk.first, key),
              GetObj(lruk.second, key), GetRet(lruk.second, key))

TwinPut(key, value) ==
  /\ inst = "twins"
  /\ TwinCall("Put", key, value,
              PutObj(lruk.first, key, value), PutRet(lruk.first, key, value),
              PutObj(lruk.second, key, value), PutRet(lruk.second, key, value))

TwinRemove(key) ==
  /\ inst = "twins"
  /\ TwinCall("Remove", key, 0, RemoveObj(lruk.first, key), RemoveRet(lruk.first, key),
              RemoveObj(lruk.second, key), RemoveRet(lruk.second, key))

TwinContains(key) ==
  /\ inst = "twins"
  /\ TwinCall("contains", key, 0,
              ContainsObj(lruk.first, key), Bool(contains(lruk.first, key)),
              ContainsObj(lruk.second, key), Bool(contains(lruk.second, key)))

TwinSize ==
  /\ inst = "twins"
  /\ TwinCall("size", 0, 0, SizeObj(lruk.first), SizeT(size(lruk.first)),
              SizeObj(lruk.second), SizeT(size(lruk.second)))

InitTwins ==
  /\ inst = "twins"
  /\ \E cache_size \in 0..MaxCapacity, k \in 1..MaxK, a \in Addresses :
       lruk = [first |-> Placed(LRU_K_Cache(cache_size, k), [x \in Keys |-> x]),
               second |-> Placed(LRU_K_Cache(cache_size, k), a)]
  /\ lru = NotConstructed
  /\ pre = lruk
  /\ op = NoOp
  /\ ret = [kind |-> "twins", first |-> Void, second |-> Void]
  /\ fresh = 0
  /\ log = Log0
  /\ list_ = NotConstructed
  /\ vector = NotConstructed

NextTwins ==
  \/ \E key \in Keys : TwinGet(key)
  \/ \E key \in Keys, value \in Values : TwinPut(key, value)
  \/ \E key \in Keys : TwinRemove(key)
  \/ \E key \in Keys : TwinContains(key)
  \/ TwinSize

SpecTwins == InitTwins /\ [][NextTwins]_vars

\* ------------------------------------------------ beside a reference map
\* The caller keeps a map of its own, which has no capacity, and updates it
\* after every Put and Remove it made on the cache:
\*   cache.Put(key, value); reference[key] = value;
\*   cache.Remove(key);     reference.erase(key);
\* A call that throws leaves the statement after it undone.
Referenced(name, key, value, result) ==
  IF result.kind = "runtime_error" THEN log.reference
  ELSE IF name = "Put" THEN MapPut(log.reference, key, value)
  ELSE IF name = "Remove" THEN MapErase(log.reference, key)
  ELSE log.reference

RefCall(name, key, value, obj, result) ==
  /\ op' = [name |-> name, key |-> key, value |-> value]
  /\ ret' = result
  /\ pre' = lruk
  /\ lruk' = obj
  /\ log' = [log EXCEPT !.reference = Referenced(name, key, value, result)]
  /\ UNCHANGED <<inst, lru, fresh, list_, vector>>

RefGet(key) ==
  /\ inst = "reference"
  /\ RefCall("Get", key, 0, GetObj(lruk, key), GetRet(lruk, key))

RefPut(key, value) ==
  /\ inst = "reference"
  /\ RefCall("Put", key, value, PutObj(lruk, key, value), PutRet(lruk, key, value))

RefRemove(key) ==
  /\ inst = "reference"
  /\ RefCall("Remove", key, 0, RemoveObj(lruk, key), RemoveRet(lruk, key))

InitRef ==
  /\ inst = "reference"
  /\ \E cache_size \in 0..MaxCapacity, k \in 1..MaxK : lruk = LRU_K_Cache(cache_size, k)
  /\ lru = NotConstructed
  /\ pre = lruk
  /\ op = NoOp
  /\ ret = Void
  /\ fresh = 0
  /\ log = Log0
  /\ list_ = NotConstructed
  /\ vector = NotConstructed

NextRef ==
  \/ \E key \in Keys : RefGet(key)
  \/ \E key \in Keys, value \in Values : RefPut(key, value)
  \/ \E key \in Keys : RefRemove(key)

SpecRef == InitRef /\ [][NextRef]_vars

\* ------------------------------------------------------- LRU_K_Cache, K = 0
\* The constructor takes K = 0 as it takes any K.  The calls are those of
\* Spec, except that a call whose lookup in the eviction set reads front() of
\* an empty history has one of the outcomes of CallUndefined.  A behaviour is
\* followed up to its first such call.
Defined == ret.kind \notin {"crash", "undefined"}

GetK0(key) ==
  /\ Defined
  /\ IF CallIsUndefined("Get", key, 0, lruk)
     THEN /\ \E o \in CallUndefined("Get", key, 0, lruk) : Call("Get", key, 0, o.obj, o.ret)
          /\ fresh' = -1
     ELSE Get(key)

PutK0(key, value) ==
  /\ Defined
  /\ IF CallIsUndefined("Put", key, value, lruk)
     THEN /\ \E o \in CallUndefined("Put", key, value, lruk) :
               Call("Put", key, value, o.obj, o.ret)
          /\ fresh' = -1
     ELSE Put(key, value)

RemoveK0(key) ==
  /\ Defined
  /\ IF CallIsUndefined("Remove", key, 0, lruk)
     THEN /\ \E o \in CallUndefined("Remove", key, 0, lruk) :
               Call("Remove", key, 0, o.obj, o.ret)
          /\ fresh' = -1
     ELSE Remove(key)

ContainsK0(key) ==
  /\ Defined
  /\ Contains(key)

SizeK0 ==
  /\ Defined
  /\ Size

InitK0 ==
  /\ inst = "LRU_K_Cache"
  /\ \E cache_size \in 0..MaxCapacity : lruk = LRU_K_Cache(cache_size, 0)
  /\ lru = NotConstructed
  /\ pre = lruk
  /\ op = NoOp
  /\ ret = Void
  /\ fresh = 0
  /\ log = Log0
  /\ list_ = NotConstructed
  /\ vector = NotConstructed

NextK0 ==
  \/ \E key \in Keys : GetK0(key)
  \/ \E key \in Keys, value \in Values : PutK0(key, value)
  \/ \E key \in Keys : RemoveK0(key)
  \/ \E key \in Keys : ContainsK0(key)
  \/ SizeK0

SpecK0 == InitK0 /\ [][NextK0]_vars

\* ------------------------------------------------- vocabulary of the claims
IsLRUK == inst = "LRU_K_Cache"
IsLRU == inst = "LRUCache"

\* the last call returned (it did not fail with clock exhaustion)
Returned == ret.kind # "runtime_error"

\* the entries with K recorded accesses
Full(c) == {x \in DOMAIN c.cache_ : Len(c.cache_[x].history_) = c.k_}

\* the entries the last call removed from the index
Dropped == (DOMAIN pre.cache_) \ (DOMAIN lruk.cache_)

\* the last call was a Put of a key that was not indexed
PutNew == IsLRUK /\ op.name = "Put" /\ ~contains(pre, op.key)

\* the last call was a Put of a key that was indexed
PutExisting == IsLRUK /\ op.name = "Put" /\ contains(pre, op.key)

GetHit == IsLRUK /\ op.name = "Get" /\ contains(pre, op.key)
GetMiss == IsLRUK /\ op.name = "Get" /\ ~contains(pre, op.key)
RemoveHit == IsLRUK /\ op.name = "Remove" /\ contains(pre, op.key)
RemoveMiss == IsLRUK /\ op.name = "Remove" /\ ~contains(pre, op.key)

\* the oldest retained timestamp of entry x of c
Oldest(c, x) == c.cache_[x].history_[1]

\* the newest timestamp of entry x of c
Newest(c, x) == c.cache_[x].history_[Len(c.cache_[x].history_)]

\* the last (at most k) elements of h followed by ts
OneMoreAccess(h, ts, k) ==
  LET all == h \o <<ts>>
      n == IF Len(all) < k THEN Len(all) ELSE k
  IN SubSeq(all, Len(all) - n + 1, Len(all))

\* every entry other than op.key is as it was before the call
OthersUntouched ==
  \A y \in (DOMAIN pre.cache_) \ {op.key} :
    y \in DOMAIN lruk.cache_ /\ lruk.cache_[y] = pre.cache_[y]

\* s without its occurrences of x, order kept
Without(s, x) == SelectSeq(s, LAMBDA e : e # x)

\* ------------------------------------------------------------------ claims
\* C1: a Put of a new key while size() >= capacity and some entry has K
\* accesses removes exactly one entry before inserting: the entry whose oldest
\* retained timestamp is the smallest among the entries with K accesses.  All
\* other entries stay indexed with their values (a Get returns them, unless the
\* clock is exhausted), and Get on the evicted key returns empty.
C1_EvictsSmallestKth ==
  (PutNew /\ size(pre) >= pre.capacity_ /\ Full(pre) # {}) =>
    \E victim \in Full(pre) :
      /\ \A y \in Full(pre) : Oldest(pre, victim) <= Oldest(pre, y)
      /\ Dropped = {victim}
      /\ DOMAIN lruk.cache_ = ((DOMAIN pre.cache_) \ {victim}) \cup {op.key}
      /\ GetRet(lruk, victim) = Nullopt
      /\ \A y \in (DOMAIN pre.cache_) \ {victim} :
           /\ contains(lruk, y)
           /\ lruk.cache_[y].value_ = pre.cache_[y].value_
           /\ ~Overflow(lruk) => GetRet(lruk, y) = Some(pre.cache_[y].value_)

\* two entries with K = 2 accesses; the evicted one was touched more recently
\* than the survivor, but its second-most-recent access is older
C1_Witness ==
  /\ PutNew /\ Returned /\ pre.k_ = 2 /\ size(pre) >= pre.capacity_
  /\ Cardinality(Full(pre)) >= 2
  /\ \E victim \in Dropped, y \in Full(pre) \ Dropped :
       /\ Oldest(pre, victim) < Oldest(pre, y)
       /\ Newest(pre, victim) > Newest(pre, y)

\* C2: whenever a Put inserts a new key while some indexed entry has K
\* accesses, size() after that Put is not above capacity (stated here for the
\* caches constructed with capacity >= 1).
C2_SizeWithinCapacity ==
  (PutNew /\ Full(pre) # {} /\ lruk.capacity_ >= 1) => size(lruk) <= lruk.capacity_

\* C3: every entry removed by a Put had exactly K timestamps in its history
\* when it was removed.
C3_OnlyFullEvicted ==
  (IsLRUK /\ op.name = "Put") =>
    \A x \in Dropped : Len(pre.cache_[x].history_) = pre.k_

\* a full entry was evicted although an entry with fewer than K accesses, last
\* touched before every retained access of the victim, was indexed
C3_Witness ==
  /\ IsLRUK /\ op.name = "Put" /\ Returned
  /\ \E x \in Dropped, y \in (DOMAIN pre.cache_) \ Full(pre) :
       /\ pre.cache_[y].history_ # <<>>
       /\ Newest(pre, y) < Oldest(pre, x)
       /\ contains(lruk, y)

C5_PutThenGet ==
  /\ (IsLRUK /\ op.name = "Put" /\ Returned /\ lruk.capacity_ >= 1) =>
       /\ contains(lruk, op.key)
       /\ ~Overflow(lruk) => GetRet(lruk, op.key) = Some(op.value)
  /\ (IsLRU /\ op.name = "put" /\ lru._capacity >= 1) =>
       getRet(lru, op.key) = Some(op.value)

\* a put of a new key into a full LRUCache: one key was evicted, not the new one
C5_Witness ==
  /\ IsLRU /\ op.name = "put" /\ lru._capacity >= 1
  /\ op.key \notin DOMAIN pre._cache_mapper
  /\ Cardinality(DOMAIN pre._cache_mapper) = pre._capacity
  /\ (DOMAIN pre._cache_mapper) \ (DOMAIN lru._cache_mapper) # {}
  /\ getRet(lru, op.key) = Some(op.value)

\* C6: Get on a key that is not indexed returns empty and leaves the index,
\* the values, the histories, the eviction set and the clock as they were.
C6_GetMissNoEffect ==
  GetMiss => (ret = Nullopt /\ lruk = pre /\ ~contains(lruk, op.key))

C6_Witness ==
  /\ GetMiss /\ ret = Nullopt
  /\ lruk.eviction_set_ # <<>>
  /\ Full(lruk) # DOMAIN lruk.cache_
  /\ lruk.current_timestamp_ < TimestampMax

\* C7: a Get on an indexed key that returns gives the entry's value and
\* records one access on that entry only: the clock advances by one, the new
\* clock value is appended to the entry's history (the oldest timestamp making
\* room at K), and the index, all values and the other histories are unchanged.
C7_GetHitRecordsOneAccess ==
  (GetHit /\ Returned) =>
    /\ ret = Some(pre.cache_[op.key].value_)
    /\ lruk.current_timestamp_ = pre.current_timestamp_ + 1
    /\ DOMAIN lruk.cache_ = DOMAIN pre.cache_
    /\ \A y \in DOMAIN pre.cache_ : lruk.cache_[y].value_ = pre.cache_[y].value_
    /\ lruk.cache_[op.key].history_ =
         OneMoreAccess(pre.cache_[op.key].history_, lruk.current_timestamp_, pre.k_)
    /\ OthersUntouched

C7_Witness ==
  /\ GetHit /\ Returned /\ pre.k_ = 2
  /\ op.key \in Full(pre)
  /\ size(pre) >= 2
  /\ lruk.cache_[op.key].history_ # pre.cache_[op.key].history_

\* C8: a Put on an indexed key that returns records one access on that entry
\* and overwrites its value; it evicts nothing, also when size() >= capacity:
\* the index and size() are unchanged and no other entry changes.
C8_PutExistingNoEvict ==
  (PutExisting /\ Returned) =>
    /\ DOMAIN lruk.cache_ = DOMAIN pre.cache_
    /\ size(lruk) = size(pre)
    /\ lruk.cache_[op.key].value_ = op.value
    /\ lruk.current_timestamp_ = pre.current_timestamp_ + 1
    /\ lruk.cache_[op.key].history_ =
         OneMoreAccess(pre.cache_[op.key].history_, lruk.current_timestamp_, pre.k_)
    /\ OthersUntouched

C8_Witness ==
  /\ PutExisting /\ Returned
  /\ size(pre) >= pre.capacity_ /\ pre.capacity_ >= 1
  /\ Full(pre) \ {op.key} # {}
  /\ pre.cache_[op.key].value_ # op.value
  /\ lruk.cache_[op.key].value_ = op.value

\* C9: Remove on an indexed key returns true, deletes the entry from the
\* index and from the eviction set, decreases size() by one and leaves all
\* other entries, the order of the other members and the clock unchanged;
\* afterwards Get on the key returns empty and contains returns false.
C9_RemoveHit ==
  RemoveHit =>
    /\ ret = Bool(TRUE)
    /\ DOMAIN lruk.cache_ = (DOMAIN pre.cache_) \ {op.key}
    /\ op.key \notin SeqToSet(lruk.eviction_set_)
    /\ lruk.eviction_set_ = Without(pre.eviction_set_, op.key)
    /\ size(lruk) = size(pre) - 1
    /\ OthersUntouched
    /\ lruk.current_timestamp_ = pre.current_timestamp_
    /\ GetRet(lruk, op.key) = Nullopt
    /\ ~contains(lruk, op.key)

\* the removed entry had K = 2 accesses and was not the first member
C9_Witness ==
  /\ RemoveHit /\ ret = Bool(TRUE) /\ pre.k_ = 2
  /\ op.key \in Full(pre)
  /\ Len(pre.eviction_set_) >= 2 /\ pre.eviction_set_[1] # op.key
  /\ Len(lruk.eviction_set_) = Len(pre.eviction_set_) - 1

\* C10: Remove on a key that is not indexed returns false, raises no error
\* and leaves the whole cache as it was.
C10_RemoveMiss ==
  RemoveMiss => (ret = Bool(FALSE) /\ lruk = pre)

C10_Witness ==
  /\ RemoveMiss /\ ret = Bool(FALSE)
  /\ lruk.eviction_set_ # <<>>
  /\ Full(lruk) # DOMAIN lruk.cache_

\* C11: contains(key) returns true exactly when the key is indexed and leaves
\* the whole cache (index, values, histories, eviction set, clock) as it was,
\* so every later result and every later victim is what it would be without
\* the call.
C11_ContainsIsPure ==
  (IsLRUK /\ op.name = "contains") =>
    /\ ret = Bool(op.key \in DOMAIN pre.cache_)
    /\ lruk = pre

C11_Witness ==
  /\ IsLRUK /\ op.name = "contains" /\ ret = Bool(TRUE)
  /\ op.key \in Full(lruk) /\ lruk.k_ = 2
  /\ size(lruk) >= 2
  /\ lruk.current_timestamp_ < TimestampMax

\* C12: with capacity >= 1, as long as Put was called with at most capacity
\* distinct keys and Remove was not called, nothing is evicted and size() is
\* the number of distinct keys put so far.
C12_WithinCapacityNoEviction ==
  (IsLRUK /\ lruk.capacity_ >= 1 /\ log.within) =>
    /\ DOMAIN lruk.cache_ = log.distinct
    /\ size(lruk) = Cardinality(log.distinct)
    /\ op.name # "construct" => Dropped = {}

\* capacity 2 filled with two keys, with further Put, Get or contains calls
C12_Witness ==
  /\ IsLRUK /\ lruk.capacity_ = 2 /\ log.within
  /\ Cardinality(log.distinct) = 2
  /\ Full(lruk) # {}
  /\ log.accesses >= 4
  /\ op.name = "Put"

\* C13: a Put removes at most one previously indexed entry and never the key
\* it puts: afterwards the key is indexed and the index is the one before
\* plus the key, minus at most one other key.
C13_PutDropsAtMostOne ==
  (IsLRUK /\ op.name = "Put") =>
    /\ contains(lruk, op.key)
    /\ op.key \notin Dropped
    /\ Cardinality(Dropped) <= 1
    /\ DOMAIN lruk.cache_ = ((DOMAIN pre.cache_) \ Dropped) \cup {op.key}

\* one entry was evicted although two had K accesses
C13_Witness ==
  /\ PutNew /\ Returned
  /\ Cardinality(Dropped) = 1
  /\ Cardinality(Full(pre)) >= 2
  /\ Cardinality(DOMAIN lruk.cache_) = Cardinality(DOMAIN pre.cache_)

\* every timestamp held in a history of c
Timestamps(c) ==
  UNION {SeqToSet(c.cache_[x].history_) : x \in DOMAIN c.cache_}

\* the last call was one that records an access: Get on an indexed key, or Put
Recording == GetHit \/ (IsLRUK /\ op.name = "Put")

\* C14: a cache with capacity 0 or K 0 (LRUCache: with a non-positive
\* capacity) is rejected at construction, so none ever serves a get, put or
\* remove.
C14_InvalidConfigRejected ==
  /\ (IsLRUK /\ op.name \in {"Get", "Put", "Remove"}) =>
       (pre.capacity_ >= 1 /\ pre.k_ >= 1)
  /\ (IsLRU /\ op.name \in {"get", "put"}) => pre._capacity >= 1

\* C15: a Get or Put that fails with clock exhaustion leaves the index, the
\* values, the histories, the eviction set and the clock as they were (stated
\* here for the caches constructed with capacity >= 1).
C15_FailureChangesNothing ==
  (IsLRUK /\ pre.capacity_ >= 1 /\ ret = RuntimeError) => lruk = pre

\* C16: when the clock is at its maximum, every Get on an indexed key and
\* every Put fails with a runtime error and the clock stays; the clock never
\* goes back, and a timestamp that is issued is above all timestamps held.
C16_ClockNeverWraps ==
  IsLRUK =>
    /\ (Recording /\ pre.current_timestamp_ = TimestampMax) =>
         (ret = RuntimeError /\ lruk.current_timestamp_ = TimestampMax)
    /\ lruk.current_timestamp_ >= pre.current_timestamp_
    /\ \A t \in Timestamps(lruk) : t <= lruk.current_timestamp_
    /\ (Recording /\ Returned) =>
         \A t \in Timestamps(pre) : t < Newest(lruk, op.key)

C16_Witness ==
  /\ GetHit /\ pre.current_timestamp_ = TimestampMax
  /\ ret = RuntimeError
  /\ op.key \in Full(pre)

\* C17: the clock is 0 at construction and always equals the number of
\* accesses recorded so far: a Get on an indexed key and a Put that return
\* add exactly one; Get on an absent key, Remove, contains, size (and a call
\* that fails) leave it; it never decreases, also not on eviction or Remove.
C17_ClockCountsAccesses ==
  IsLRUK =>
    /\ op.name = "construct" => lruk.current_timestamp_ = 0
    /\ lruk.current_timestamp_ = log.accesses
    /\ (Recording /\ Returned) =>
         lruk.current_timestamp_ = pre.current_timestamp_ + 1
    /\ ~(Recording /\ Returned) =>
         lruk.current_timestamp_ = pre.current_timestamp_
    /\ lruk.current_timestamp_ >= pre.current_timestamp_

\* a Remove emptied the cache after three or more accesses; the clock stayed
C17_Witness ==
  /\ RemoveHit /\ size(lruk) = 0
  /\ lruk.current_timestamp_ >= 3
  /\ lruk.current_timestamp_ = log.accesses

\* the keys the last put removed from the LRUCache
LruDropped ==
  ((DOMAIN pre._cache_mapper) \cup {op.key}) \ (DOMAIN lru._cache_mapper)

\* the last call put a key the LRUCache did not hold
LruPutNew == IsLRU /\ op.name = "put" /\ op.key \notin DOMAIN pre._cache_mapper

\* x was put or found by get before (or when) y was, last time
NotAfter(x, y) ==
  \A i, j \in 1..Len(log.recency) :
    (log.recency[i] = x /\ log.recency[j] = y) => i >= j

\* C18: with K = 1, the entry a put of a new key evicts is the entry whose
\* most recent access is the oldest among the entries present before the put,
\* and every other entry stays retrievable; in LRUCache and in LRU_K_Cache.
\* (An entry of LRU_K_Cache left without a timestamp by a failed Put was put
\* after every timestamp was issued.)
C18_PlainRecency ==
  /\ (PutNew /\ pre.k_ = 1 /\ Dropped # {}) =>
       \E victim \in DOMAIN pre.cache_ :
         /\ Dropped = {victim}
         /\ pre.cache_[victim].history_ # <<>>
         /\ \A y \in DOMAIN pre.cache_ :
              pre.cache_[y].history_ # <<>> => Newest(pre, victim) <= Newest(pre, y)
         /\ \A y \in (DOMAIN pre.cache_) \ {victim} :
              contains(lruk, y) /\ lruk.cache_[y].value_ = pre.cache_[y].value_
  /\ (LruPutNew /\ LruDropped # {}) =>
       \E victim \in DOMAIN pre._cache_mapper :
         /\ LruDropped = {victim}
         /\ \A y \in DOMAIN pre._cache_mapper : NotAfter(victim, y)
         /\ \A y \in (DOMAIN pre._cache_mapper) \ {victim} :
              getRet(lru, y) = getRet(pre, y)

\* C20: an LRUCache constructed with capacity c >= 0 never stores more than
\* c entries, in the map and in the list.
C20_LruWithinCapacity ==
  (IsLRU /\ lru._capacity >= 0) =>
    /\ Cardinality(DOMAIN lru._cache_mapper) <= lru._capacity
    /\ Cardinality(DOMAIN lru.heap) - 2 <= lru._capacity

\* a put of a new key into a full cache of capacity 2
C20_Witness ==
  /\ LruPutNew /\ lru._capacity = 2
  /\ Cardinality(DOMAIN pre._cache_mapper) = 2
  /\ Cardinality(DOMAIN lru._cache_mapper) = 2
  /\ LruDropped # {}

IsPair == inst = "pair"

\* the keys and their values in the LRUCache and in the LRU_K_Cache
LruEntries(c) == [x \in DOMAIN c._cache_mapper |-> c.heap[c._cache_mapper[x]].value]
LrukEntries(c) == [x \in DOMAIN c.cache_ |-> c.cache_[x].value_]

\* C19: LRUCache and LRU_K_Cache with K = 1, constructed with the same
\* capacity >= 1 and given the same get and put calls, return the same result
\* from every get and hold the same keys with the same values after every
\* call.  The comparison runs as long as no call of the LRU_K_Cache has failed
\* with clock exhaustion, which is fatal for that instance; LRUCache has no
\* clock.
C19_SameContract ==
  (IsPair /\ ~log.failed) =>
    /\ ret.lru = ret.lruk
    /\ LruEntries(lru) = LrukEntries(lruk)

\* both caches were full, a get had made the first key put the newer one, and
\* the put of a third key evicted from both
C19_Witness ==
  /\ IsPair /\ ~log.failed
  /\ op.name = "put" /\ op.key = 3
  /\ DOMAIN LruEntries(pre.lru) = {1, 2}
  /\ Newest(pre.lruk, 1) > Newest(pre.lruk, 2)
  /\ pre.lruk.cache_[2].history_[1] > 1
  /\ DOMAIN LruEntries(lru) = {1, 3}
  /\ DOMAIN LrukEntries(lruk) = {1, 3}

\* --------------------------------------------------- Stack, Queue, Vector
IsStack == inst = "Stack"
IsQueue == inst = "Queue"
IsVector == inst = "Vector"

\* the elements of the list l from node on, following next
RECURSIVE Walk(_, _)
Walk(l, node) ==
  IF node = Null THEN <<>> ELSE <<l.heap[node].data>> \o Walk(l, l.heap[node].next)

\* the elements of the list l from _head to _tail
ListElements(l) == Walk(l, l._head)

\* C21: Stack is LIFO and total on empty: after any push, pop and clear calls
\* top() returns the most recently pushed element not yet popped, or nullopt
\* when the stack is empty; pop() on an empty stack does nothing (no error,
\* size stays 0) and on a non-empty stack removes exactly the top element.
C21_StackLifo ==
  IsStack =>
    /\ ListElements(list_) = log.pushed
    /\ Stack_size(list_).ret = SizeT(Len(log.pushed))
    /\ Stack_top(list_).ret =
         IF log.pushed = <<>> THEN Nullopt ELSE Some(log.pushed[Len(log.pushed)])
    /\ op.name = "top" => ret = Stack_top(pre).ret /\ list_ = pre
    /\ (op.name = "pop" /\ ListElements(pre) = <<>>) =>
         ret = Void /\ list_ = pre /\ List_size(list_) = 0
    /\ (op.name = "pop" /\ ListElements(pre) # <<>>) =>
         /\ ret = Void
         /\ ListElements(list_) = SubSeq(ListElements(pre), 1, Len(ListElements(pre)) - 1)

\* a pop took the top of a stack of two different elements
C21_Witness ==
  /\ IsStack /\ op.name = "pop"
  /\ Len(ListElements(pre)) = 2
  /\ ListElements(pre)[1] # ListElements(pre)[2]
  /\ Stack_top(list_).ret = Some(ListElements(pre)[1])

\* C22: the documented Queue is FIFO and total on empty: after any push, pop
\* and clear calls front() returns the oldest element not yet popped and
\* back() the newest, both nullopt when the queue is empty; pop() removes
\* exactly the front element and does nothing on an empty queue; size() is
\* the number of pushes minus the number of elements removed.
C22_QueueFifo ==
  IsQueue =>
    /\ ListElements(list_) = log.pushed
    /\ Queue_size(list_).ret = SizeT(Len(log.pushed))
    /\ Queue_front(list_).ret =
         IF log.pushed = <<>> THEN Nullopt ELSE Some(log.pushed[1])
    /\ Queue_back(list_).ret =
         IF log.pushed = <<>> THEN Nullopt ELSE Some(log.pushed[Len(log.pushed)])
    /\ op.name = "front" => ret = Queue_front(pre).ret /\ list_ = pre
    /\ op.name = "back" => ret = Queue_back(pre).ret /\ list_ = pre
    /\ (op.name = "pop" /\ ListElements(pre) = <<>>) =>
         ret = Void /\ list_ = pre /\ List_size(list_) = 0
    /\ (op.name = "pop" /\ ListElements(pre) # <<>>) =>
         ret = Void /\ ListElements(list_) = Tail(ListElements(pre))

\* a pop took the front of a queue of two different elements
C22_Witness ==
  /\ IsQueue /\ op.name = "pop"
  /\ Len(ListElements(pre)) = 2
  /\ ListElements(pre)[1] # ListElements(pre)[2]
  /\ Queue_front(list_).ret = Some(ListElements(pre)[2])
  /\ Queue_back(list_).ret = Some(ListElements(pre)[2])

\* C23: Vector::at is bounds-checked: at(index) raises an error when
\* index >= size() and returns the element stored at that position when
\* index < size().
C23_AtBoundsChecked ==
  (IsVector /\ op.name = "at") =>
    /\ vector = pre
    /\ IF op.key >= pre._size
       THEN ret.kind \in {"logic_error", "runtime_error"}
       ELSE ret = Some(pre._data_array[op.key])

\* C24: Vector::reverse reverses the elements of every vector, the empty one
\* included: size() is unchanged, element i becomes element size() - 1 - i,
\* only positions below size() are read or written (nothing is on an empty
\* vector), and a second reverse restores the original sequence.
C24_ReverseReverses ==
  (IsVector /\ op.name = "reverse") =>
    /\ ret.kind = "void"
    /\ vector._size = pre._size
    /\ vector._capacity = pre._capacity
    /\ \A i \in 0..(pre._size - 1) :
         vector._data_array[i] = pre._data_array[pre._size - 1 - i]
    /\ ret.accessed \subseteq 0..(pre._size - 1)
    /\ pre._size = 0 => vector = pre
    /\ \A o \in Vector_reverse(vector) :
         o.ret.kind = "void" /\ Elements(o.obj) = Elements(pre)

\* C25: in LRU_K_Cache with K >= 1 the history of every indexed entry holds at
\* most K timestamps, as many as min(K, accesses recorded on the entry since
\* Put created it); an access on an entry with K timestamps drops the oldest.
C25_HistoryBounded ==
  IsLRUK =>
    /\ \A x \in DOMAIN lruk.cache_ :
         /\ Len(lruk.cache_[x].history_) <= lruk.k_
         /\ Len(lruk.cache_[x].history_) = Min({lruk.k_, log.recorded[x]})
    /\ (Recording /\ Returned /\ contains(pre, op.key)
          /\ Len(pre.cache_[op.key].history_) = pre.k_) =>
         lruk.cache_[op.key].history_ =
           Append(Tail(pre.cache_[op.key].history_), lruk.current_timestamp_)

\* an entry with two timestamps, K = 2, was accessed a third time
C25_Witness ==
  /\ IsLRUK /\ Recording /\ Returned /\ pre.k_ = 2
  /\ contains(pre, op.key)
  /\ Len(pre.cache_[op.key].history_) = 2
  /\ lruk.cache_[op.key].history_[1] = pre.cache_[op.key].history_[2]

\* the members of the eviction set of c
Members(c) == SeqToSet(c.eviction_set_)

\* C26: in LRU_K_Cache with K >= 1, after every public operation an indexed
\* entry is a member of the eviction set if and only if its history holds
\* exactly K timestamps.
C26_MemberIffFull ==
  IsLRUK =>
    \A x \in DOMAIN lruk.cache_ :
      (x \in Members(lruk)) <=> (Len(lruk.cache_[x].history_) = lruk.k_)

\* K = 2: a Remove left one entry with two timestamps beside one with one
C26_Witness ==
  /\ IsLRUK /\ lruk.k_ = 2 /\ RemoveHit
  /\ \E x, y \in DOMAIN lruk.cache_ :
       /\ Len(lruk.cache_[x].history_) = 2 /\ x \in Members(lruk)
       /\ Len(lruk.cache_[y].history_) = 1 /\ y \notin Members(lruk)

\* C27: the state of an entry only moves forward: is_evictable_ is false
\* until the K-th recorded access on the entry, becomes true at exactly that
\* access, and from then on the entry stays evictable and a member of the
\* eviction set across every later call, until eviction or Remove deletes it.
C27_EvictableForward ==
  IsLRUK =>
    /\ \A x \in DOMAIN lruk.cache_ :
         /\ lruk.cache_[x].is_evictable_ <=> log.recorded[x] >= lruk.k_
         /\ lruk.cache_[x].is_evictable_ => x \in Members(lruk)
    /\ \A x \in (DOMAIN pre.cache_) \cap (DOMAIN lruk.cache_) :
         pre.cache_[x].is_evictable_ =>
           (lruk.cache_[x].is_evictable_ /\ x \in Members(lruk))
    /\ (Recording /\ Returned /\ contains(pre, op.key)
          /\ ~pre.cache_[op.key].is_evictable_) =>
         (lruk.cache_[op.key].is_evictable_
            <=> Len(pre.cache_[op.key].history_) = pre.k_ - 1)
    /\ (PutNew /\ Returned) => (lruk.cache_[op.key].is_evictable_ <=> lruk.k_ = 1)

\* K = 2: the second access made an entry evictable while an entry that was
\* evictable before stayed so
C27_Witness ==
  /\ IsLRUK /\ Recording /\ Returned /\ pre.k_ = 2
  /\ contains(pre, op.key)
  /\ ~pre.cache_[op.key].is_evictable_
  /\ lruk.cache_[op.key].is_evictable_
  /\ \E y \in (DOMAIN pre.cache_) \ {op.key} :
       pre.cache_[y].is_evictable_ /\ contains(lruk, y)

\* C28: the index and the eviction set never disagree about which entries
\* are alive: in every reachable state, also after an eviction, a Remove and
\* a call that failed with clock exhaustion, every member of the eviction set
\* is an entry of the index under its own key (once), and no deleted entry is
\* left in either.
C28_IndexAndSetAgree ==
  IsLRUK =>
    /\ Members(lruk) \subseteq DOMAIN lruk.cache_
    /\ Cardinality(Members(lruk)) = Len(lruk.eviction_set_)
    /\ \A x \in DOMAIN lruk.cache_ : lruk.cache_[x].key_ = x
    /\ \A x \in (DOMAIN pre.cache_) \ (DOMAIN lruk.cache_) :
         x \notin Members(lruk) /\ GetRet(lruk, x) = Nullopt

\* a Put that failed with clock exhaustion had evicted one of two members
C28_Witness ==
  /\ PutNew /\ ret = RuntimeError
  /\ Cardinality(Members(pre)) = 2
  /\ Dropped # {}
  /\ Cardinality(Members(lruk)) = 1
  /\ lruk.cache_[op.key].history_ = <<>>

\* C29: every history is ordered oldest first: its timestamps increase
\* strictly from front to back, each is at least 1 and at most the clock, and
\* the back timestamp of the most recently accessed entry is the clock.
C29_HistoryOldestFirst ==
  IsLRUK =>
    /\ \A x \in DOMAIN lruk.cache_ :
         LET h == lruk.cache_[x].history_
         IN /\ \A i \in 1..Len(h) : 1 <= h[i] /\ h[i] <= lruk.current_timestamp_
            /\ \A i, j \in 1..Len(h) : i < j => h[i] < h[j]
            /\ \A i \in 1..Len(h) : h[i] = lruk.current_timestamp_ => i = Len(h)
    /\ (Recording /\ Returned) => Newest(lruk, op.key) = lruk.current_timestamp_

\* K = 2: a Get on an entry whose two accesses were not consecutive
C29_Witness ==
  /\ GetHit /\ Returned /\ lruk.k_ = 2
  /\ Len(lruk.cache_[op.key].history_) = 2
  /\ Oldest(lruk, op.key) + 1 < Newest(lruk, op.key)
  /\ Len(pre.cache_[op.key].history_) = 2
  /\ Oldest(pre, op.key) + 1 < Newest(pre, op.key)

\* the eviction set of c is ordered as the comparator orders its members now
Sorted(c) ==
  \A i, j \in 1..Len(c.eviction_set_) :
    i < j => Compare(c, c.eviction_set_[i], c.eviction_set_[j])

\* the histories of c without the one of entry x
OtherHistories(c, x) == [y \in (DOMAIN c.cache_) \ {x} |-> c.cache_[y].history_]

\* the object ResourceAccess starts from in the last call: for a Put of a new
\* key, the object after Evict() and the insert into the index
Accessed ==
  IF contains(pre, op.key) THEN pre
  ELSE [Evict(pre) EXCEPT !.cache_ = MapPut(@, op.key, LRUNode(op.key, op.value))]

\* C30: a history is never written while its entry is a member of the
\* eviction set: within one recorded access the entry is first erased from the
\* set (if a member), then the timestamp is appended and the oldest dropped,
\* then the entry is inserted (if it has K timestamps); after each step the set
\* is ordered consistently with the oldest timestamps of its members.
C30_EraseWriteInsert ==
  IsLRUK =>
    /\ Sorted(lruk)
    /\ (Recording /\ Returned) =>
         LET x == op.key
             c0 == Accessed
             st == ResourceAccessSteps(c0, x)
         IN /\ Sorted(c0)
            \* erased, nothing written yet
            /\ x \notin Members(st[1])
            /\ Members(st[1]) = Members(c0) \ {x}
            /\ st[1].cache_ = c0.cache_
            /\ Sorted(st[1])
            \* written while not a member
            /\ st[2].cache_[x].history_ # c0.cache_[x].history_
            /\ st[2].eviction_set_ = st[1].eviction_set_
            /\ Sorted(st[2])
            \* inserted, nothing written any more
            /\ st[3].cache_[x].history_ = st[2].cache_[x].history_
            /\ (x \in Members(st[3])) <=> (Len(st[3].cache_[x].history_) = st[3].k_)
            /\ Members(st[3]) \ {x} = Members(st[2])
            /\ Sorted(st[3])
            /\ \A i \in 1..3 : OtherHistories(st[i], x) = OtherHistories(c0, x)
            \* and that is where the call left the object
            /\ lruk.eviction_set_ = st[3].eviction_set_
            /\ \A y \in DOMAIN lruk.cache_ :
                 lruk.cache_[y].history_ = st[3].cache_[y].history_

\* an access moved the first of two members of the eviction set behind the other
C30_Witness ==
  /\ IsLRUK /\ Recording /\ Returned
  /\ Len(pre.eviction_set_) = 2
  /\ pre.eviction_set_[1] = op.key
  /\ Len(lruk.eviction_set_) = 2
  /\ lruk.eviction_set_[2] = op.key
  /\ pre.k_ = 2

\* C31: no sequence of public calls on an LRU_K_Cache reads the oldest
\* timestamp of an entry whose history is empty: no lookup the last call made
\* in the eviction set called front() on an empty history_.
C31_NoEmptyFrontRead ==
  IsLRUK => ~CallIsUndefined(op.name, op.key, op.value, pre)

\* C38: with K >= 1 the comparator is never called on an entry with fewer
\* than K recorded accesses: every erase from and insert into the eviction set
\* looks up an entry with exactly K timestamps among members with exactly K
\* timestamps, so Compare never returns from its two first tests.
C38_ComparatorOnlyOnFull ==
  (IsLRUK /\ pre.k_ >= 1) =>
    \A l \in CallLookups(op.name, op.key, op.value, pre) :
      /\ Len(l[1].cache_[l[2]].history_) = l[1].k_
      /\ \A m \in SeqToSet(l[1].eviction_set_) : Len(l[1].cache_[m].history_) = l[1].k_
      /\ \A p \in CompareCalls(l[1], l[2]) : FrontReads(l[1], p[1], p[2]) = {p[1], p[2]}

\* a call looked an entry up in a set with another member while the index
\* held an entry with fewer than K timestamps
C38_Witness ==
  /\ IsLRUK /\ pre.k_ = 2
  /\ \E l \in CallLookups(op.name, op.key, op.value, pre) :
       /\ CompareCalls(l[1], l[2]) # {}
       /\ \E y \in DOMAIN l[1].cache_ : Len(l[1].cache_[y].history_) < l[1].k_

\* what a caller can learn of an instance and what it holds: everything but
\* the addresses of its nodes
Observable(c) ==
  [capacity_ |-> c.capacity_, k_ |-> c.k_, cache_ |-> c.cache_,
   eviction_set_ |-> c.eviction_set_, current_timestamp_ |-> c.current_timestamp_]

Stamps(c) ==
  UNION {{<<x, i>> : i \in 1..Len(c.cache_[x].history_)} : x \in DOMAIN c.cache_}

\* C33: the timestamps held in the histories of the indexed entries are
\* pairwise distinct, so no two members of the eviction set have the same
\* oldest timestamp: the comparator is a strict total order on the members,
\* no insert into the set is rejected as a duplicate, and no comparison of
\* two entries is decided by their keys.
C33_TimestampsDistinct ==
  IsLRUK =>
    /\ \A p, q \in Stamps(lruk) :
         p # q => lruk.cache_[p[1]].history_[p[2]] # lruk.cache_[q[1]].history_[q[2]]
    /\ \A a, b \in Members(lruk) : a # b => Oldest(lruk, a) # Oldest(lruk, b)
    /\ \A a, b \in Members(lruk) :
         /\ ~Compare(lruk, a, a)
         /\ a # b => (Compare(lruk, a, b) <=> ~Compare(lruk, b, a))
         /\ \A d \in Members(lruk) :
              (Compare(lruk, a, b) /\ Compare(lruk, b, d)) => Compare(lruk, a, d)
    /\ \A l \in CallLookups(op.name, op.key, op.value, pre) :
         \A p \in CompareCalls(l[1], l[2]) :
           (p[1] # p[2] /\ FrontReads(l[1], p[1], p[2]) # {}) =>
             Oldest(l[1], p[1]) # Oldest(l[1], p[2])
    /\ (Recording /\ Returned) =>
         LET st == ResourceAccessSteps(Accessed, op.key)
         IN Len(st[2].cache_[op.key].history_) = st[2].k_ =>
              /\ op.key \notin Members(st[2])
              /\ Len(st[3].eviction_set_) = Len(st[2].eviction_set_) + 1
              /\ lruk.eviction_set_ = st[3].eviction_set_

\* the K-th access of an entry inserted it into a set that held another
C33_Witness ==
  /\ IsLRUK /\ Recording /\ Returned
  /\ pre.k_ = 2
  /\ Len(lruk.eviction_set_) = 2
  /\ op.key \notin Members(pre)
  /\ op.key \in Members(lruk)

\* the key-to-value mapping of c
Mapping(c) == [x \in DOMAIN c.cache_ |-> c.cache_[x].value_]

\* C34: beside a reference map updated by the same Put and Remove calls, the
\* key-to-value mapping of the cache is a subset of the reference map in
\* every state, and every Get returns empty or the value of the most recent
\* Put on its key.
C34_SubsetOfReference ==
  inst = "reference" =>
    /\ \A x \in DOMAIN Mapping(lruk) :
         x \in DOMAIN log.reference /\ Mapping(lruk)[x] = log.reference[x]
    /\ (op.name = "Get" /\ ret.kind = "value") =>
         (op.key \in DOMAIN log.reference /\ ret.val = log.reference[op.key])

RECURSIVE NodesFrom(_, _, _)
NodesFrom(c, node, n) ==
  IF node = c._tail \/ node = Null \/ n = 0 THEN <<>>
  ELSE IF node \notin DOMAIN c.heap THEN <<node>>
  ELSE <<node>> \o NodesFrom(c, c.heap[node].next, n - 1)

\* the nodes of the list of c behind _head, in list order
ListNodes(c) == NodesFrom(c, c.heap[c._head].next, Cardinality(DOMAIN c.heap))

\* their keys
ListKeys(c) == [i \in 1..Len(ListNodes(c)) |-> c.heap[ListNodes(c)[i]].key]

\* C36: a put on a key the LRUCache stores replaces the value of the key,
\* makes it the most recently used entry and evicts nothing: the stored keys
\* (and so size) are as before, and every other key keeps its value and its
\* place in the recency order relative to the others.
C36_PutExistingFrame ==
  (IsLRU /\ op.name = "put" /\ op.key \in DOMAIN pre._cache_mapper) =>
    /\ DOMAIN lru._cache_mapper = DOMAIN pre._cache_mapper
    /\ LruEntries(lru)[op.key] = op.value
    /\ ListKeys(lru)[1] = op.key
    /\ \A y \in (DOMAIN pre._cache_mapper) \ {op.key} :
         LruEntries(lru)[y] = LruEntries(pre)[y]
    /\ Without(ListKeys(lru), op.key) = Without(ListKeys(pre), op.key)
    /\ Len(ListKeys(lru)) = Len(ListKeys(pre))

\* a put gave a new value to the least recently used of two stored keys
C36_Witness ==
  /\ IsLRU /\ op.name = "put"
  /\ Len(ListKeys(pre)) = 2
  /\ ListKeys(pre)[2] = op.key
  /\ op.key \in DOMAIN pre._cache_mapper
  /\ LruEntries(pre)[op.key] # op.value
  /\ ListKeys(lru) = <<op.key, ListKeys(pre)[1]>>

\* the keys put or found by get so far that c stores, most recent first
StoredByRecency(c) == SelectSeq(log.recency, LAMBDA x : x \in DOMAIN c._cache_mapper)

\* next and prev of the nodes of the list of c, sentinels included, agree
LinksAgree(c) ==
  LET nodes == ListNodes(c)
      chain == <<c._head>> \o nodes \o <<c._tail>>
  IN /\ \A i \in 1..Len(chain) : chain[i] \in DOMAIN c.heap
     /\ \A i \in 1..(Len(chain) - 1) :
          /\ c.heap[chain[i]].next = chain[i + 1]
          /\ c.heap[chain[i + 1]].prev = chain[i]
     /\ c.heap[c._head].prev = Null
     /\ c.heap[c._tail].next = Null

\* C37: after every put and get of an LRUCache the list and the map describe
\* the same entries: the nodes between the sentinels are the nodes the map
\* points to, one per key, none twice and none deleted; next and prev agree;
\* the list holds the keys in the order of their most recent access, newest
\* first; and a get on an absent key changes nothing.
C37_ListAndMapAgree ==
  IsLRU =>
    /\ LinksAgree(lru)
    /\ LET nodes == ListNodes(lru)
       IN /\ Len(nodes) = Cardinality(DOMAIN lru._cache_mapper)
          /\ SeqToSet(nodes) = {lru._cache_mapper[x] : x \in DOMAIN lru._cache_mapper}
          /\ \A i, j \in 1..Len(nodes) : i # j => nodes[i] # nodes[j]
          /\ \A x \in DOMAIN lru._cache_mapper :
               /\ lru._cache_mapper[x] \in DOMAIN lru.heap
               /\ lru.heap[lru._cache_mapper[x]].key = x
          /\ DOMAIN lru.heap = {lru._head, lru._tail} \cup SeqToSet(nodes)
    /\ ListKeys(lru) = StoredByRecency(lru)
    /\ (op.name = "get" /\ op.key \notin DOMAIN pre._cache_mapper) =>
         (lru = pre /\ ret = Nullopt)

\* a get moved the last of three nodes to the front of the list
C37_Witness ==
  /\ IsLRU /\ op.name = "get"
  /\ Len(ListNodes(pre)) = 3
  /\ ListKeys(pre)[3] = op.key
  /\ ListKeys(lru) = <<op.key, ListKeys(pre)[1], ListKeys(pre)[2]>>

====
